---- MODULE Spec2Model ----
(***************************************************************************)
(* State-machine model of the PresentationView component                   *)
(* (src/src/components/PresentationView.tsx): the derivation of slides     *)
(* from the generated text, the navigation state and the edit handlers.    *)
(* Text is modelled as sequences of one-character strings.                 *)
(***************************************************************************)
EXTENDS Integers, Sequences, FiniteSets, TLC

VARIABLES presentation, title, onSave, currentSlideIndex, isEditing,
          processedPresentation, effectPending, uuidCount, now,
          emitted, lastOp

vars == <<presentation, title, onSave, currentSlideIndex, isEditing,
          processedPresentation, effectPending, uuidCount, now,
          emitted, lastOp>>

----------------------------------------------------------------------------
(* Bounds of the model *)

MaxTextLen == 6
MaxDecks == 3
MaxJump == 2

----------------------------------------------------------------------------
(* Characters and strings *)

NL == "\n"
SP == " "
Chars == {"a", SP, NL}

(* the characters of the model that \s matches in a JavaScript regular    *)
(* expression                                                              *)
IsWhitespace(c) == c \in {SP, NL, "\t", "\r"}

RECURSIVE TextsOfLen(_)
TextsOfLen(n) ==
  IF n = 0 THEN {<<>>}
  ELSE {Append(t, c) : t \in TextsOfLen(n - 1), c \in Chars}

AllTexts == UNION {TextsOfLen(n) : n \in 0..MaxTextLen}

(* the generated texts the session is driven with *)
Texts == { <<>>,
           <<"a">>,
           <<"a", NL, NL, "a">>,
           <<"a", NL, NL, NL, "a">> }

GeminiApi == <<"g", "e", "m", "i", "n", "i", "-", "a", "p", "i">>
Sources == {<<>>, GeminiApi, <<"d">>}
Titles == {<<"D">>, <<"M", SP, SP, "T">>}
EditValues == {<<"x">>}
Fields == {"title", "content"}

----------------------------------------------------------------------------
(* Deck Builder: the body of the effect, lines 46-54 *)

(* String.prototype.split with the separator "\n\n": the text is cut at    *)
(* every occurrence of the separator found scanning from the left, the     *)
(* scan resuming right after each occurrence.                              *)
RECURSIVE SplitNN(_)
SplitNN(s) ==
  LET hits == {i \in 1..(Len(s) - 1) : s[i] = NL /\ s[i + 1] = NL}
  IN IF hits = {} THEN <<s>>
     ELSE LET i == CHOOSE j \in hits : \A k \in hits : j <= k
          IN <<SubSeq(s, 1, i - 1)>> \o SplitNN(SubSeq(s, i + 2, Len(s)))

(* Array.prototype.filter(Boolean) on strings: only "" is falsy *)
FilterBoolean(blocks) == SelectSeq(blocks, LAMBDA b : b # <<>>)

Digit(d) == CASE d = 0 -> "0" [] d = 1 -> "1" [] d = 2 -> "2" [] d = 3 -> "3"
              [] d = 4 -> "4" [] d = 5 -> "5" [] d = 6 -> "6" [] d = 7 -> "7"
              [] d = 8 -> "8" [] d = 9 -> "9"

(* decimal rendering of a number inside a template literal *)
RECURSIVE DecStr(_)
DecStr(n) == IF n < 10 THEN <<Digit(n)>>
             ELSE Append(DecStr(n \div 10), Digit(n % 10))

(* `Slide ${index + 1}` with the 0-based index of the filtered array;      *)
(* k is the 1-based position in the TLA+ sequence, so k = index + 1        *)
SlideTitle(k) == <<"S", "l", "i", "d", "e", SP>> \o DecStr(k)

EmptyStyle == <<>>

MapSlide(content, k) ==
  [title |-> SlideTitle(k), content |-> content,
   imageUrl |-> <<>>, style |-> EmptyStyle]

(* the title numbered by the position of the block before the filter *)
BuildSlidesUnfilteredIndex(result) ==
  LET blocks == SplitNN(result)
      kept == {k \in 1..Len(blocks) : blocks[k] # <<>>}
      nth(n) == CHOOSE k \in kept : Cardinality({j \in kept : j <= k}) = n
  IN [n \in 1..Cardinality(kept) |-> MapSlide(blocks[nth(n)], nth(n))]

BuildSlides(result) ==
  LET blocks == FilterBoolean(SplitNN(result))
  IN [k \in 1..Len(blocks) |-> MapSlide(blocks[k], k)]

----------------------------------------------------------------------------
(* Component state, lines 30-37, and what the render makes of it *)

Uuidv4 == uuidCount + 1

(* what a handler hands to the outside while it runs: the argument of the  *)
(* onSave call, or the anchor that is clicked and removed                   *)
Nothing == [kind |-> "none"]

slides == processedPresentation.slides

(* line 66: undefined when the index is not an index of the array *)
HasCurrentSlide ==
  currentSlideIndex >= 0 /\ currentSlideIndex < Len(slides)

currentSlide == slides[currentSlideIndex + 1]

(* line 136: the early return of the render *)
Loading == Len(slides) = 0

(* lines 116-117, 167: past the Loading guard the render reads              *)
(* currentSlide.style, which throws when currentSlide is undefined          *)
RenderThrows == ~Loading /\ ~HasCurrentSlide

(* the card with its controls is on screen *)
Rendered == ~effectPending /\ ~Loading /\ ~RenderThrows

(* lines 39-42: computed at every render, used nowhere *)
DefaultTitle(source, aTitle) ==
  IF source # <<>> /\ source # GeminiApi THEN source ELSE aTitle

defaultTitle == DefaultTitle(presentation.source, title)

Init ==
  /\ presentation \in [result : Texts, source : Sources]
  /\ title \in Titles
  /\ onSave \in BOOLEAN
  /\ currentSlideIndex = 0
  /\ isEditing = FALSE
  /\ processedPresentation =
       [id |-> 1, createdAt |-> 0, title |-> title, slides |-> <<>>]
  /\ effectPending = TRUE
  /\ uuidCount = 1
  /\ now = 0
  /\ emitted = Nothing
  /\ lastOp = "init"

----------------------------------------------------------------------------
(* The effect of lines 45-64 *)

(* the new slides merged into the previous deck, its title kept *)
BuildDeckMerging(result, aTitle, t) ==
  [id |-> Uuidv4, createdAt |-> t, title |-> processedPresentation.title,
   slides |-> BuildSlides(result)]

(* the identity of the previous deck carried over to the new one *)
BuildDeckSameId(result, aTitle, t) ==
  [id |-> processedPresentation.id, createdAt |-> t, title |-> aTitle,
   slides |-> BuildSlides(result)]

(* the deck titled with defaultTitle instead of the title prop *)
BuildDeckDefaultTitle(result, aTitle, t) ==
  [id |-> Uuidv4, createdAt |-> t,
   title |-> DefaultTitle(presentation.source, aTitle),
   slides |-> BuildSlides(result)]

(* the deck the effect stores: setProcessedPresentation of lines 57-62 *)
BuildDeck(result, aTitle, t) ==
  [id |-> Uuidv4, createdAt |-> t, title |-> aTitle,
   slides |-> BuildSlides(result)]

SessionUnchanged == UNCHANGED <<currentSlideIndex, isEditing>>

(* the run of the effect after the first render *)
MountEffect ==
  /\ effectPending
  /\ \E t \in now..(now + 1) :
       /\ now' = t
       /\ processedPresentation' = BuildDeck(presentation.result, title, t)
  /\ uuidCount' = uuidCount + 1
  /\ effectPending' = FALSE
  /\ lastOp' = "rebuild"
  /\ emitted' = Nothing
  /\ SessionUnchanged
  /\ UNCHANGED <<presentation, title, onSave>>

(* new props with a changed dependency (result or source): the component   *)
(* renders with them and the effect runs again                              *)
Rebuild ==
  /\ ~effectPending
  /\ ~RenderThrows
  /\ uuidCount < MaxDecks
  /\ \E p \in [result : Texts, source : Sources], newTitle \in Titles,
        t \in now..(now + 1) :
       /\ p.result # presentation.result \/ p.source # presentation.source
       /\ presentation' = p
       /\ title' = newTitle
       /\ now' = t
       /\ processedPresentation' = BuildDeck(p.result, newTitle, t)
  /\ uuidCount' = uuidCount + 1
  /\ lastOp' = "rebuild"
  /\ emitted' = Nothing
  /\ SessionUnchanged
  /\ UNCHANGED <<onSave, effectPending>>

(* new props with only the title changed: no dependency of the effect      *)
(* changed, so the deck is kept                                             *)
TitlePropChange ==
  /\ ~effectPending
  /\ ~RenderThrows
  /\ \E newTitle \in Titles :
       /\ newTitle # title
       /\ title' = newTitle
  /\ lastOp' = "titleProp"
  /\ emitted' = Nothing
  /\ UNCHANGED <<presentation, onSave, currentSlideIndex, isEditing,
                 processedPresentation, effectPending, uuidCount, now>>

----------------------------------------------------------------------------
(* Navigation, lines 68-76 and 233 *)

PrevIndex(prev) == IF prev > 0 THEN prev - 1 ELSE prev

(* going on from the last slide to the first *)
NextIndexWrapping(prev) == IF prev < Len(slides) - 1 THEN prev + 1 ELSE 0

(* the comparison against length - 2: the last slide is never entered *)
NextIndexStoppingShort(prev) ==
  IF prev < Len(slides) - 2 THEN prev + 1 ELSE prev

NextIndex(prev) == IF prev < Len(slides) - 1 THEN prev + 1 ELSE prev

NavUnchanged ==
  /\ emitted' = Nothing
  /\ UNCHANGED <<presentation, title, onSave, isEditing,
                 processedPresentation, effectPending, uuidCount, now>>

goToPreviousSlide ==
  /\ Rendered
  /\ currentSlideIndex' = PrevIndex(currentSlideIndex)
  /\ lastOp' = "goPrevious"
  /\ NavUnchanged

goToNextSlide ==
  /\ Rendered
  /\ currentSlideIndex' = NextIndex(currentSlideIndex)
  /\ lastOp' = "goNext"
  /\ NavUnchanged

(* onClick={() => setCurrentSlideIndex(index)} *)
SetCurrentSlideIndex(index) == currentSlideIndex' = index

(* one dot per slide: the indices offered are those of slides.map *)
DotOnClick ==
  /\ Rendered
  /\ \E index \in 0..(Len(slides) - 1) : SetCurrentSlideIndex(index)
  /\ lastOp' = "jumpTo"
  /\ NavUnchanged

----------------------------------------------------------------------------
(* Editing, lines 90-114 and 146-154 *)

(* onSave called on every toggle, entering or leaving *)
handleEditToggleAlwaysSaves ==
  /\ Rendered
  /\ IF onSave
       THEN emitted' = [kind |-> "onSave", arg |-> processedPresentation]
       ELSE emitted' = Nothing
  /\ isEditing' = ~isEditing
  /\ lastOp' = "toggleEdit"
  /\ UNCHANGED <<presentation, title, onSave, currentSlideIndex,
                 processedPresentation, effectPending, uuidCount, now>>

(* the toggle going back to the first slide as well *)
handleEditToggleResettingIndex ==
  /\ Rendered
  /\ IF isEditing /\ onSave
       THEN emitted' = [kind |-> "onSave", arg |-> processedPresentation]
       ELSE emitted' = Nothing
  /\ isEditing' = ~isEditing
  /\ currentSlideIndex' = 0
  /\ lastOp' = "toggleEdit"
  /\ UNCHANGED <<presentation, title, onSave,
                 processedPresentation, effectPending, uuidCount, now>>

handleEditToggle ==
  /\ Rendered
  /\ IF isEditing /\ onSave
       THEN emitted' = [kind |-> "onSave", arg |-> processedPresentation]
       ELSE emitted' = Nothing
  /\ isEditing' = ~isEditing
  /\ lastOp' = "toggleEdit"
  /\ UNCHANGED <<presentation, title, onSave, currentSlideIndex,
                 processedPresentation, effectPending, uuidCount, now>>

(* the slide rebuilt from the field alone, without the spread *)
UpdatedSlidesNoSpread(field, value) ==
  [slides EXCEPT ![currentSlideIndex + 1] =
     [title |-> <<>>, content |-> <<>>, imageUrl |-> <<>>,
      style |-> EmptyStyle] @@ [f \in {field} |-> value]]

(* the edited slide moved to the front of the array *)
UpdatedSlidesReordering(field, value) ==
  LET at == currentSlideIndex + 1
  IN <<[slides[at] EXCEPT ![field] = value]>>
       \o SubSeq(slides, 1, at - 1) \o SubSeq(slides, at + 1, Len(slides))

UpdatedSlides(field, value) ==
  [slides EXCEPT ![currentSlideIndex + 1] = [@ EXCEPT ![field] = value]]

(* the two inputs that call it are rendered only while editing *)
updateSlideContent ==
  /\ Rendered
  /\ isEditing
  /\ \E field \in Fields, value \in EditValues :
       processedPresentation' =
         [processedPresentation EXCEPT !.slides = UpdatedSlides(field, value)]
  /\ lastOp' = "updateSlideField"
  /\ emitted' = Nothing
  /\ UNCHANGED <<presentation, title, onSave, currentSlideIndex, isEditing,
                 effectPending, uuidCount, now>>

(* the deck made of the new title alone, without the spread of prev *)
SetTitleNoSpread(value) ==
  processedPresentation' =
    [id |-> processedPresentation.id,
     createdAt |-> processedPresentation.createdAt,
     title |-> value, slides |-> <<>>]

(* setProcessedPresentation(prev => ({...prev, title: e.target.value})) *)
SetTitle(value) ==
  processedPresentation' = [processedPresentation EXCEPT !.title = value]

(* the title input, rendered only while editing *)
TitleOnChange ==
  /\ Rendered
  /\ isEditing
  /\ \E value \in EditValues : SetTitle(value)
  /\ lastOp' = "setTitle"
  /\ emitted' = Nothing
  /\ UNCHANGED <<presentation, title, onSave, currentSlideIndex, isEditing,
                 effectPending, uuidCount, now>>

----------------------------------------------------------------------------
(* Export, lines 78-88 *)

(* every whitespace character replaced on its own: /\s/g for /\s+/g *)
RECURSIVE ReplaceEachWhitespace(_)
ReplaceEachWhitespace(s) ==
  IF s = <<>> THEN <<>>
  ELSE <<IF IsWhitespace(Head(s)) THEN "_" ELSE Head(s)>>
         \o ReplaceEachWhitespace(Tail(s))

(* String.prototype.replace(/\s+/g, '_'): every maximal run of whitespace  *)
(* becomes one underscore                                                   *)
RECURSIVE ReplaceWhitespaceRuns(_)
ReplaceWhitespaceRuns(s) ==
  IF s = <<>> THEN <<>>
  ELSE IF IsWhitespace(Head(s))
       THEN LET ends == {i \in 1..Len(s) :
                           \A j \in 1..i : IsWhitespace(s[j])}
                last == CHOOSE i \in ends : \A k \in ends : k <= i
            IN <<"_">> \o ReplaceWhitespaceRuns(SubSeq(s, last + 1, Len(s)))
       ELSE <<Head(s)>> \o ReplaceWhitespaceRuns(Tail(s))

(* JSON.stringify of the deck: the own properties in insertion order *)
StringifySlide(s) ==
  << <<"title", s.title>>, <<"content", s.content>>,
     <<"imageUrl", s.imageUrl>>, <<"style", s.style>> >>

Stringify(p) ==
  << <<"id", p.id>>, <<"createdAt", p.createdAt>>, <<"title", p.title>>,
     <<"slides", [k \in 1..Len(p.slides) |-> StringifySlide(p.slides[k])]>> >>

handleDownload ==
  /\ Rendered
  /\ emitted' =
       [kind |-> "download",
        download |-> ReplaceWhitespaceRuns(processedPresentation.title)
                       \o <<".", "j", "s", "o", "n">>,
        href |-> Stringify(processedPresentation)]
  /\ lastOp' = "export"
  /\ UNCHANGED <<presentation, title, onSave, currentSlideIndex, isEditing,
                 processedPresentation, effectPending, uuidCount, now>>

----------------------------------------------------------------------------

Next ==
  \/ MountEffect
  \/ Rebuild
  \/ TitlePropChange
  \/ goToPreviousSlide
  \/ goToNextSlide
  \/ DotOnClick
  \/ handleEditToggle
  \/ updateSlideContent
  \/ TitleOnChange
  \/ handleDownload

Spec == Init /\ [][Next]_vars

----------------------------------------------------------------------------
(* The Deck Builder alone: the first run of the effect on every text of    *)
(* at most MaxTextLen characters                                            *)

InitBuild ==
  /\ presentation \in [result : AllTexts, source : {<<>>}]
  /\ title \in Titles
  /\ onSave = FALSE
  /\ currentSlideIndex = 0
  /\ isEditing = FALSE
  /\ processedPresentation =
       [id |-> 1, createdAt |-> 0, title |-> title, slides |-> <<>>]
  /\ effectPending = TRUE
  /\ uuidCount = 1
  /\ now = 0
  /\ emitted = Nothing
  /\ lastOp = "init"

NextBuild == MountEffect

SpecBuild == InitBuild /\ [][NextBuild]_vars

----------------------------------------------------------------------------
(* The index setter of line 233 handed a value by a caller other than the  *)
(* dots: any index from -1 to MaxJump                                       *)

jumpTo ==
  /\ Rendered
  /\ \E index \in (-1)..MaxJump : SetCurrentSlideIndex(index)
  /\ lastOp' = "jumpTo"
  /\ NavUnchanged

NextJump == Next \/ jumpTo

SpecJump == Init /\ [][NextJump]_vars

----------------------------------------------------------------------------
(* Navigation alone: the deck is built, the dots bring the session to any  *)
(* slide, and from the first click on an arrow the user keeps clicking     *)
(* that same arrow and nothing else                                         *)

NavTexts == { <<"a">>,
              <<"a", NL, NL, "a">>,
              <<"a", NL, NL, "a", NL, NL, "a">> }

InitNav ==
  /\ presentation \in [result : NavTexts, source : Sources]
  /\ title \in Titles
  /\ onSave \in BOOLEAN
  /\ currentSlideIndex = 0
  /\ isEditing = FALSE
  /\ processedPresentation =
       [id |-> 1, createdAt |-> 0, title |-> title, slides |-> <<>>]
  /\ effectPending = TRUE
  /\ uuidCount = 1
  /\ now = 0
  /\ emitted = Nothing
  /\ lastOp = "init"

KeepsGoingNext == lastOp = "goNext" /\ goToNextSlide

KeepsGoingPrevious == lastOp = "goPrevious" /\ goToPreviousSlide

NextNav ==
  \/ MountEffect
  \/ (lastOp \notin {"goNext", "goPrevious"} /\ DotOnClick)
  \/ (lastOp \notin {"goNext", "goPrevious"} /\ goToNextSlide)
  \/ (lastOp \notin {"goNext", "goPrevious"} /\ goToPreviousSlide)
  \/ KeepsGoingNext
  \/ KeepsGoingPrevious

(* the arrow that is being clicked is clicked again as long as a click     *)
(* changes anything                                                         *)
SpecNav ==
  /\ InitNav
  /\ [][NextNav]_vars
  /\ WF_vars(KeepsGoingNext)
  /\ WF_vars(KeepsGoingPrevious)

----------------------------------------------------------------------------
(* The title updater of lines 149-152 called in either mode: the updater   *)
(* itself tests no mode, only its input is confined to edit mode            *)

setTitle ==
  /\ Rendered
  /\ \E value \in EditValues : SetTitle(value)
  /\ lastOp' = "setTitle"
  /\ emitted' = Nothing
  /\ UNCHANGED <<presentation, title, onSave, currentSlideIndex, isEditing,
                 effectPending, uuidCount, now>>

NextSetTitle == Next \/ setTitle

SpecSetTitle == Init /\ [][NextSetTitle]_vars

----------------------------------------------------------------------------
(* Reference definitions used by the claims about the Deck Builder *)

(* the text cut at every maximal run of two or more newlines *)
RECURSIVE BlocksByBlankLines(_)
BlocksByBlankLines(s) ==
  LET hits == {i \in 1..(Len(s) - 1) : s[i] = NL /\ s[i + 1] = NL}
  IN IF hits = {} THEN <<s>>
     ELSE LET i == CHOOSE j \in hits : \A k \in hits : j <= k
              run == {j \in i..Len(s) : \A k \in i..j : s[k] = NL}
              last == CHOOSE j \in run : \A k \in run : k <= j
          IN <<SubSeq(s, 1, i - 1)>>
               \o BlocksByBlankLines(SubSeq(s, last + 1, Len(s)))

IsBlank(b) == \A i \in 1..Len(b) : IsWhitespace(b[i])

SurvivingBlocks(s) ==
  SelectSeq(BlocksByBlankLines(s), LAMBDA b : ~IsBlank(b))

Digits19 == <<"1", "2", "3", "4", "5", "6", "7", "8", "9">>

(* "Slide N" for N in 1..9, written out *)
PlaceholderTitle(n) == <<"S", "l", "i", "d", "e", " ", Digits19[n]>>

Built == ~effectPending

----------------------------------------------------------------------------
(* C1: whenever the live deck has at least one slide, currentSlideIndex    *)
(* is an index of slides (0 <= currentSlideIndex <= slides.length - 1),    *)
(* also after a rebuild that yields fewer slides.                           *)
C1_IndexInRange ==
  Len(slides) > 0 =>
    (0 <= currentSlideIndex /\ currentSlideIndex <= Len(slides) - 1)

(* C2: in the state right after every rebuild, currentSlideIndex is 0 and  *)
(* edit mode is off.                                                        *)
C2_RebuildResetsSession ==
  lastOp = "rebuild" => (currentSlideIndex = 0 /\ isEditing = FALSE)

(* C3: the number of slides built from rawText is the number of blocks,    *)
(* cut at runs of two or more newlines, that are neither empty nor         *)
(* whitespace-only.                                                         *)
C3_SlideCount ==
  Built => Len(slides) = Len(SurvivingBlocks(presentation.result))

(* C4: the content of the i-th slide is the text of the i-th surviving     *)
(* block, the whole run of newlines being the separator; stated for the    *)
(* texts on which the number of slides agrees with the number of blocks.   *)
C4_SlideContents ==
  LET blocks == SurvivingBlocks(presentation.result)
  IN (Built /\ Len(slides) = Len(blocks)) =>
       \A i \in 1..Len(slides) : slides[i].content = blocks[i]

(* C5: in a freshly built deck the slide at 0-based position k is titled   *)
(* "Slide k+1", numbered over the surviving blocks without gaps, and has   *)
(* imageUrl "" and an empty style.                                          *)
C5_GeneratedTitles ==
  Built =>
    \A k \in 1..Len(slides) :
      /\ slides[k].title = PlaceholderTitle(k)
      /\ slides[k].imageUrl = <<>>
      /\ slides[k].style = <<>>

(* C5 witness: a deck of at least two slides built from a text of which    *)
(* a block was dropped.                                                     *)
C5_Witness ==
  /\ Built
  /\ Len(slides) >= 2
  /\ Len(SplitNN(presentation.result)) > Len(slides)
  /\ slides[2].title = PlaceholderTitle(2)

----------------------------------------------------------------------------
(* C6: goPrevious and goNext change currentSlideIndex by exactly -1 / +1   *)
(* when the result stays inside [0, slides.length - 1] and otherwise       *)
(* leave it unchanged; neither wraps around.                                *)
C6_NavigationClamped ==
  [][ /\ lastOp' = "goPrevious" =>
           currentSlideIndex' =
             (IF currentSlideIndex - 1 \in 0..(Len(slides) - 1)
                THEN currentSlideIndex - 1 ELSE currentSlideIndex)
      /\ lastOp' = "goNext" =>
           currentSlideIndex' =
             (IF currentSlideIndex + 1 \in 0..(Len(slides) - 1)
                THEN currentSlideIndex + 1 ELSE currentSlideIndex)
    ]_vars

(* C6 witness: goNext has run on the last slide of a deck of two slides.   *)
C6_Witness ==
  /\ lastOp = "goNext"
  /\ Len(slides) = 2
  /\ currentSlideIndex = Len(slides) - 1

C8_UpdateFrame ==
  [][ lastOp' = "updateSlideField" =>
        \E field \in {"title", "content"}, value \in EditValues :
          LET old == processedPresentation
              new == processedPresentation'
              at == currentSlideIndex + 1
          IN /\ Len(new.slides) = Len(old.slides)
             /\ at \in 1..Len(old.slides)
             /\ new.slides[at][field] = value
             /\ \A f \in {"title", "content", "imageUrl", "style"} \ {field} :
                  new.slides[at][f] = old.slides[at][f]
             /\ \A k \in 1..Len(old.slides) :
                  k # at => new.slides[k] = old.slides[k]
             /\ new.id = old.id
             /\ new.createdAt = old.createdAt
             /\ new.title = old.title
             /\ currentSlideIndex' = currentSlideIndex
             /\ isEditing' = isEditing
    ]_vars

(* C8 witness: the content of the second of two slides has been replaced   *)
(* and the first slide still holds what was built.                          *)
C8_Witness ==
  /\ lastOp = "updateSlideField"
  /\ Len(slides) = 2
  /\ currentSlideIndex = 1
  /\ slides[2].content \in EditValues
  /\ slides[2].title = PlaceholderTitle(2)
  /\ slides[1].content \notin EditValues

ExitsEditing == isEditing /\ ~isEditing'

(* C9, as stated: the commit collaborator is invoked exactly once for      *)
(* each exit from editing mode, with the live Presentation at that moment, *)
(* and at no other time.                                                    *)
C9_CommitOnEveryExit ==
  [][ /\ ExitsEditing =>
           emitted' = [kind |-> "onSave", arg |-> processedPresentation]
      /\ emitted'.kind = "onSave" => ExitsEditing
    ]_vars

(* C9, amended: when an onSave collaborator was supplied it is invoked     *)
(* exactly once for each exit from editing mode, with the live             *)
(* Presentation at that moment, and at no other time; when none was        *)
(* supplied an exit from editing mode invokes nothing.                      *)
C9_CommitOnExitIfSupplied ==
  [][ /\ (ExitsEditing /\ onSave) =>
           emitted' = [kind |-> "onSave", arg |-> processedPresentation]
      /\ (ExitsEditing /\ ~onSave) => emitted' = Nothing
      /\ emitted'.kind = "onSave" =>
           (ExitsEditing /\ onSave /\ emitted'.arg = processedPresentation')
    ]_vars

(* C9 witness: editing has just been left and the deck handed to onSave    *)
(* is the live deck, carrying a title edit and a slide edit.                *)
C9_Witness ==
  /\ lastOp = "toggleEdit"
  /\ ~isEditing
  /\ emitted.kind = "onSave"
  /\ emitted.arg = processedPresentation
  /\ emitted.arg.title \in EditValues
  /\ \E k \in 1..Len(slides) : emitted.arg.slides[k].content \in EditValues

(* C10: right after a rebuild the live Presentation is what the Deck       *)
(* Builder makes of the current rawText and title: the slides derived      *)
(* from rawText under their generated titles and the caller's title; no    *)
(* edit of the previous deck is left in it.                                 *)
C10_RebuildReplaces ==
  lastOp = "rebuild" =>
    /\ processedPresentation.title = title
    /\ Len(slides) = Len(FilterBoolean(SplitNN(presentation.result)))
    /\ \A k \in 1..Len(slides) :
         /\ slides[k].title = PlaceholderTitle(k)
         /\ slides[k].content = FilterBoolean(SplitNN(presentation.result))[k]
         /\ slides[k].imageUrl = <<>>
         /\ slides[k].style = <<>>

(* C10 witness: a rebuild of a non-empty deck that took place while the    *)
(* previous deck was being edited.                                          *)
C10_Witness ==
  /\ lastOp = "rebuild"
  /\ uuidCount >= 3
  /\ isEditing
  /\ Len(slides) >= 1

----------------------------------------------------------------------------
(* the ids generated so far: every deck the session has held carries one   *)
(* of them                                                                  *)
IdsSoFar == 1..uuidCount

(* C11: every rebuild gives the Presentation an id that no deck of the     *)
(* session held before, and the timestamp taken at the rebuild, whatever   *)
(* the text and title of the rebuild.                                       *)
C11_FreshIdentity ==
  [][ /\ processedPresentation.id \in IdsSoFar
      /\ lastOp' = "rebuild" =>
           /\ processedPresentation'.id \notin IdsSoFar
           /\ processedPresentation'.createdAt = now'
           /\ now' >= now
    ]_vars

(* C11 witness: a second deck built in the same millisecond as the first   *)
(* one, under a new id.                                                     *)
C11_Witness ==
  /\ lastOp = "rebuild"
  /\ uuidCount = 3
  /\ processedPresentation.id = 3
  /\ processedPresentation.createdAt = 0

----------------------------------------------------------------------------
----------------------------------------------------------------------------
(* the title with one underscore at the start of every run of whitespace   *)
(* and the rest of the run left out                                         *)
CollapsedWhitespace(s) ==
  LET marks == [i \in 1..Len(s) |->
                  IF ~IsWhitespace(s[i]) THEN s[i]
                  ELSE IF i = 1 \/ ~IsWhitespace(s[i - 1]) THEN "_"
                  ELSE ""]
  IN SelectSeq(marks, LAMBDA c : c # "")

(* the Presentation read back from the exported document *)
DecodedSlide(e) ==
  [title |-> e[1][2], content |-> e[2][2],
   imageUrl |-> e[3][2], style |-> e[4][2]]

Decoded(href) ==
  [id |-> href[1][2], createdAt |-> href[2][2], title |-> href[3][2],
   slides |-> [k \in 1..Len(href[4][2]) |-> DecodedSlide(href[4][2][k])]]

(* C13: export hands out a filename equal to the live deck's title with    *)
(* every maximal run of whitespace replaced by one underscore, followed by *)
(* ".json", and a payload from which the live Presentation (id, createdAt, *)
(* title, slides) is read back; it changes no session state.               *)
C13_Export ==
  [][ lastOp' = "export" =>
        /\ emitted'.kind = "download"
        /\ emitted'.download =
             CollapsedWhitespace(processedPresentation.title)
               \o <<".", "j", "s", "o", "n">>
        /\ <<emitted'.href[1][1], emitted'.href[2][1],
             emitted'.href[3][1], emitted'.href[4][1]>>
             = <<"id", "createdAt", "title", "slides">>
        /\ Decoded(emitted'.href) = processedPresentation
        /\ UNCHANGED <<presentation, title, onSave, currentSlideIndex,
                       isEditing, processedPresentation, effectPending,
                       uuidCount, now>>
    ]_vars

(* C13 witness: a deck whose title holds a run of two spaces has been      *)
(* exported under the name M_T.json.                                        *)
C13_Witness ==
  /\ lastOp = "export"
  /\ processedPresentation.title = <<"M", " ", " ", "T">>
  /\ emitted.kind = "download"
  /\ emitted.download = <<"M", "_", "T", ".", "j", "s", "o", "n">>
  /\ Len(emitted.href[4][2]) = 2

----------------------------------------------------------------------------
(* C14: the session is Loading exactly when the live deck has zero slides  *)
(* and Ready (the card with a current slide on screen) exactly when it has *)
(* at least one; the initial state is Loading.                              *)
C14_LoadingIffNoSlides ==
  /\ lastOp = "init" => (Loading /\ ~Rendered)
  /\ Loading <=> Len(slides) = 0
  /\ Built => (Rendered <=> Len(slides) >= 1)

----------------------------------------------------------------------------
(* C15: no operation other than rebuild changes the number of slides or    *)
(* their order: across every other step slides.length is the same and      *)
(* every position holds the slide it held, the slide at currentSlideIndex  *)
(* differing at most in its title and content.                              *)
C15_SlidesOnlyChangeByRebuild ==
  [][ lastOp' # "rebuild" =>
        /\ Len(processedPresentation'.slides) = Len(slides)
        /\ \A k \in 1..Len(slides) :
             /\ processedPresentation'.slides[k].imageUrl = slides[k].imageUrl
             /\ processedPresentation'.slides[k].style = slides[k].style
             /\ k # currentSlideIndex + 1 =>
                  processedPresentation'.slides[k] = slides[k]
    ]_vars

(* C15 witness: after the only build, and an edit of the first of two      *)
(* slides, the second position still holds the second block's slide.       *)
C15_Witness ==
  /\ lastOp = "updateSlideField"
  /\ uuidCount = 2
  /\ Len(slides) = Len(FilterBoolean(SplitNN(presentation.result)))
  /\ Len(slides) = 2
  /\ currentSlideIndex = 0
  /\ slides[1].title \in EditValues
  /\ slides[2] = MapSlide(FilterBoolean(SplitNN(presentation.result))[2], 2)

----------------------------------------------------------------------------
(* C16: setTitle(newTitle) sets the live Presentation's title to newTitle  *)
(* in viewing and in editing mode, leaves id, createdAt, every slide,      *)
(* currentSlideIndex and the edit-mode flag unchanged, and does not invoke *)
(* the commit collaborator.                                                 *)
C16_SetTitleFrame ==
  [][ lastOp' = "setTitle" =>
        /\ processedPresentation'.title \in EditValues
        /\ processedPresentation'.id = processedPresentation.id
        /\ processedPresentation'.createdAt = processedPresentation.createdAt
        /\ processedPresentation'.slides = processedPresentation.slides
        /\ currentSlideIndex' = currentSlideIndex
        /\ isEditing' = isEditing
        /\ emitted'.kind # "onSave"
    ]_vars

(* C16 witness: the title of a deck of two slides has been set while the   *)
(* session was viewing.                                                     *)
C16_Witness ==
  /\ lastOp = "setTitle"
  /\ ~isEditing
  /\ processedPresentation.title \in EditValues
  /\ processedPresentation.title # title
  /\ Len(slides) = 2

----------------------------------------------------------------------------
(* C17: goPrevious, goNext, jumpTo, toggleEdit and export leave the live   *)
(* Presentation unchanged; goPrevious, goNext and jumpTo leave the         *)
(* edit-mode flag unchanged; toggleEdit leaves currentSlideIndex unchanged *)
(* and flips the edit-mode flag on every call.                              *)
C17_NavigationToggleExportFrame ==
  [][ /\ lastOp' \in {"goPrevious", "goNext", "jumpTo", "toggleEdit",
                      "export"} =>
           processedPresentation' = processedPresentation
      /\ lastOp' \in {"goPrevious", "goNext", "jumpTo"} =>
           isEditing' = isEditing
      /\ lastOp' = "toggleEdit" =>
           /\ currentSlideIndex' = currentSlideIndex
           /\ isEditing' = ~isEditing
    ]_vars

(* C17 witness: edit mode has been entered on the second slide of a deck   *)
(* that is still as it was built.                                           *)
C17_Witness ==
  /\ lastOp = "toggleEdit"
  /\ isEditing
  /\ currentSlideIndex = 1
  /\ Len(slides) = 2
  /\ processedPresentation.title = title
  /\ \A k \in 1..2 : slides[k].title \notin EditValues

----------------------------------------------------------------------------
(* C18: from any Ready state, goNext applied repeatedly with nothing in    *)
(* between brings currentSlideIndex to slides.length - 1, where it stays;  *)
(* goPrevious applied repeatedly brings it to 0, where it stays.           *)
C18_NavigationReachesEnds ==
  /\ (lastOp = "goNext") ~> [](currentSlideIndex = Len(slides) - 1)
  /\ (lastOp = "goPrevious") ~> [](currentSlideIndex = 0)

(* C18 witness: goNext has brought the session to the last of three        *)
(* slides.                                                                  *)
C18_Witness ==
  /\ lastOp = "goNext"
  /\ Len(slides) = 3
  /\ currentSlideIndex = 2

====
